---- MODULE Spec2Model ----
(***************************************************************************)
(* Model of the queue registry and the voice-state reconciler of          *)
(* src/src/Player.ts (class Player).                                       *)
(*                                                                         *)
(* Queue objects live in `sessions` (index = object identity); the         *)
(* registry `queues` maps a guild id to a session index or None.  The      *)
(* Queue class itself (./managers/Queue) is modelled from its documented   *)
(* contract: {connection, options, data, destroyed, leave()}.              *)
(* The delay of setTimeout is abstracted: a pending timer fires at any     *)
(* later step.  Every handler is a pure outcome operator (the post-state   *)
(* and the visible effects, in program order) plus an action that takes    *)
(* one of its outcomes.                                                    *)
(*                                                                         *)
(* The second part models the cache decorator of src/src/utils/Cache.ts.   *)
(* The store object of file-system-cache is a key -> value map per         *)
(* namespace that outlives the module variable cacheInstance.  A decorated *)
(* call is split where the code awaits: the synchronous part of the        *)
(* wrapper (call) and the continuation passed to then (resolve).  Strings  *)
(* are sequences of characters, so that serializeArgs really joins.        *)
(***************************************************************************)
EXTENDS Integers, Sequences, FiniteSets, Bags, TLC

VARIABLES
    options,    \* Player.options
    queues,     \* Player.queues : guild id -> session index or None
    sessions,   \* every Queue object constructed so far
    members,    \* connection.channel.members of the voice channel
    timers,     \* pending setTimeout callbacks: a bag of [q, joined]
    last        \* what the last step did: operation and its visible effects

VARIABLES
    cacheInstance,  \* Cache.ts cacheInstance: NoInstance or the bound namespace
    disk,           \* what the store holds: namespace -> key -> value
    calls           \* every call of a decorated method made so far

playerVars == <<options, queues, sessions, members, timers, last>>
cacheVars == <<cacheInstance, disk, calls>>
vars == <<options, queues, sessions, members, timers, last,
          cacheInstance, disk, calls>>

(* ----------------------------- bounds ---------------------------------- *)
MaxSessions == 2
MaxTimers == 2
MaxCalls == 2

(* ---------------------------- universe --------------------------------- *)
None == 0
NoChannel == "none"
Unset == "unset"

\* guild ids callers and presence events name; the client resolves only g1
\* (a session gets under g2 through setQueue)
GuildIds == {"g1", "g2"}
ResolvableGuilds == {"g1"}
ClientId == "bot"
UserIds == {"bot", "u1"}
VoiceChannel == "c1"
ChannelIds == {"c1"}

Opt(S, f) == [k \in S |-> f[k]]

\* the option objects a caller passes to createQueue (keys may be absent)
CallOptions ==
    { Opt({}, [x |-> FALSE]),
      Opt({"deafenOnJoin", "leaveOnEmpty", "data"},
          [deafenOnJoin |-> FALSE, leaveOnEmpty |-> FALSE, data |-> "d1"]) }

\* Player.options after the constructor merged the defaults with its
\* argument; together with CallOptions a session has both flags on or both off
\* (the timeout option is the abstracted delay of the timer)
InitOptions == [deafenOnJoin |-> TRUE, leaveOnEmpty |-> TRUE]

\* presence snapshots: oldState carries guild, member, channel, serverDeaf;
\* of newState only channelId and serverDeaf are read.  The code compares
\* channel ids only for equality and absence, so one channel id and "none"
\* give every case (same, both absent, left, entered).
OldStates == [guild : GuildIds, member : UserIds,
              channelId : ChannelIds \cup {NoChannel}, serverDeaf : BOOLEAN]
NewStates == [channelId : ChannelIds \cup {NoChannel}, serverDeaf : BOOLEAN]

(* ------------------------- pure helpers -------------------------------- *)
\* Object.assign({}, a, b)
ObjectAssign(a, b) ==
    [k \in (DOMAIN a) \cup (DOMAIN b) |-> IF k \in DOMAIN b THEN b[k] ELSE a[k]]

\* delete o.k
DeleteKey(o, key) == [k \in (DOMAIN o) \ {key} |-> o[k]]

\* reading a boolean option; an absent key reads undefined, which is falsy
Flag(o, key) == IF key \in DOMAIN o THEN o[key] ELSE FALSE

\* effects of a step, in program order
Leave(q) == [kind |-> "leave", ev |-> "-", q |-> q]
Emit(ev, q) == [kind |-> "emit", ev |-> ev, q |-> q]
SetTimeout(q) == [kind |-> "setTimeout", ev |-> "-", q |-> q]
Return(q) == [kind |-> "return", ev |-> "-", q |-> q]
Throw(err) == [kind |-> "throw", ev |-> err, q |-> None]

CountKind(effects, kind) ==
    Cardinality({i \in DOMAIN effects : effects[i].kind = kind})
CountEmit(effects, ev) ==
    Cardinality({i \in DOMAIN effects : effects[i].kind = "emit" /\ effects[i].ev = ev})

(* --------------------------- Queue (contract) -------------------------- *)
\* new Queue(player, guild, options); queue.data = data
NewQueue(guildId, opts, data) ==
    [guild |-> guildId, options |-> opts, data |-> data,
     destroyed |-> FALSE, connection |-> NoChannel]

\* queue.leave(): idempotent teardown, sets destroyed; whether the connection
\* reference is cleared is not fixed by the contract
LeaveOutcomes(queue) ==
    { [queue EXCEPT !.destroyed = TRUE],
      [queue EXCEPT !.destroyed = TRUE, !.connection = NoChannel] }

(* ------------------------------ registry ------------------------------- *)
hasQueue(guildId) == queues[guildId] # None

getQueue(guildId) == queues[guildId]

\* variant: the `if (!guild) throw` guard is missing
GuildResolved_unchecked(guildId) == TRUE

\* client.guilds.resolve(guildId) is non-null
GuildResolved(guildId) == guildId \in ResolvableGuilds

\* variant: the existing-queue shortcut is missing
HasLiveQueue_skipped(guildId) == FALSE

\* variant: the destroyed flag is not looked at
HasLiveQueue_anyEntry(guildId) == hasQueue(guildId)

\* variant: the negation of the destroyed flag is lost
HasLiveQueue_negated(guildId) ==
    hasQueue(guildId) /\ sessions[getQueue(guildId)].destroyed

\* this.hasQueue(guildId) && !this.getQueue(guildId)?.destroyed
HasLiveQueue(guildId) ==
    hasQueue(guildId) /\ ~sessions[getQueue(guildId)].destroyed

(* ------------------------- utils/Cache.ts: data ------------------------ *)
NoInstance == "null"
Undefined == "undefined"
Namespaces == {"ns1", "ns2"}
\* the decorated methods
Ops == {"opA", "opB"}
\* what a wrapped method resolves to; the empty string is falsy
Results == {"", "v1", "v2"}

Str(chars) == [kind |-> "string", chars |-> chars]
Null == [kind |-> "null", chars |-> <<>>]
\* the argument lists a decorated method is called with
ArgLists ==
    { <<Str(<<"a">>), Str(<<"b">>)>>,
      <<Str(<<"a", ":", "b">>)>>,
      <<Str(<<"a">>)>>,
      <<Null>> }

\* if (result)
Truthy(result) == result # ""

\* arg.toString() throws a TypeError on null
HasToString(arg) == arg.kind # "null"
toString(arg) == arg.chars

\* Array.prototype.join(":")
RECURSIVE join(_)
join(strs) ==
    IF Len(strs) = 0 THEN <<>>
    ELSE IF Len(strs) = 1 THEN strs[1]
    ELSE strs[1] \o <<":">> \o join(Tail(strs))

serializeArgs(args) == join([i \in DOMAIN args |-> toString(args[i])])

\* args.map(arg => arg.toString()) completes
Serializable(args) == \A i \in DOMAIN args : HasToString(args[i])

\* the cache keys the calls can produce
Keys == {serializeArgs(args) : args \in {a \in ArgLists : Serializable(a)}}

(* ------------------------------ Player --------------------------------- *)
\* after `new Player(client)` with default options (no cache path, so the
\* constructor does not call initCache) and an empty store
Init ==
    /\ options = InitOptions
    /\ queues = [g \in GuildIds |-> None]
    /\ sessions = <<>>
    /\ members = {}
    /\ timers = EmptyBag
    /\ last = [op |-> "constructor", effects |-> <<>>]
    /\ cacheInstance = NoInstance
    /\ disk = [ns \in Namespaces |-> [k \in Keys |-> Undefined]]
    /\ calls = <<>>

\* createQueue(guildId, options): the registry, the queues and the player
\* options it leaves behind, and what it returns or throws
createQueueOutcome(guildId, o) ==
    LET merged == ObjectAssign(options, o)
        data == IF "data" \in DOMAIN merged THEN merged["data"] ELSE Unset
        queue == NewQueue(guildId, DeleteKey(merged, "data"), data)
        q == Len(sessions) + 1
    IN  IF ~GuildResolved(guildId)
        THEN [options |-> options, queues |-> queues, sessions |-> sessions,
              effects |-> <<Throw("INVALID_GUILD")>>]
        ELSE IF HasLiveQueue(guildId)
        THEN [options |-> options, queues |-> queues, sessions |-> sessions,
              effects |-> <<Return(getQueue(guildId))>>]
        ELSE [options |-> options,
              queues |-> [queues EXCEPT ![guildId] = q],
              sessions |-> Append(sessions, queue),
              effects |-> <<Return(q)>>]

createQueue(guildId, o) ==
    LET r == createQueueOutcome(guildId, o)
    IN  /\ Len(r.sessions) <= MaxSessions
        /\ options' = r.options
        /\ queues' = r.queues
        /\ sessions' = r.sessions
        /\ last' = [op |-> "createQueue", effects |-> r.effects]
        /\ UNCHANGED <<members, timers>>
        /\ UNCHANGED cacheVars

\* this.queues.set(guildId, queue)
setQueueOutcome(guildId, q) == [queues EXCEPT ![guildId] = q]

setQueue(guildId, q) ==
    /\ queues' = setQueueOutcome(guildId, q)
    /\ last' = [op |-> "setQueue", effects |-> <<>>]
    /\ UNCHANGED <<options, sessions, members, timers>>
    /\ UNCHANGED cacheVars

\* variant: this.queues.clear()
deleteQueueOutcome_clear(guildId) ==
    [queues |-> [g \in GuildIds |-> None], sessions |-> sessions]

\* this.queues.delete(guildId): the registry and the queues it leaves behind
deleteQueueOutcome(guildId) ==
    [queues |-> [queues EXCEPT ![guildId] = None], sessions |-> sessions]

deleteQueue(guildId) ==
    LET r == deleteQueueOutcome(guildId)
    IN  /\ queues' = r.queues
        /\ sessions' = r.sessions
        /\ last' = [op |-> "deleteQueue", effects |-> <<>>]
        /\ UNCHANGED <<options, members, timers>>
        /\ UNCHANGED cacheVars

(* ------------------- Queue operations used by callers ------------------ *)
\* queue.join(channel): the session gets an active connection
queueJoin(q) ==
    /\ ~sessions[q].destroyed
    /\ sessions[q].connection = NoChannel
    /\ sessions' = [sessions EXCEPT ![q].connection = VoiceChannel]
    /\ last' = [op |-> "queue", effects |-> <<>>]
    /\ UNCHANGED <<options, queues, members, timers>>
    /\ UNCHANGED cacheVars

\* a caller terminates a session itself
queueLeave(q) ==
    /\ \E r \in LeaveOutcomes(sessions[q]) :
           /\ r # sessions[q]
           /\ sessions' = [sessions EXCEPT ![q] = r]
    /\ last' = [op |-> "queue", effects |-> <<>>]
    /\ UNCHANGED <<options, queues, members, timers>>
    /\ UNCHANGED cacheVars

(* ---------------- live membership of the voice channel ----------------- *)
\* a pending timer remembers whether somebody other than the client joined
\* the channel after it was scheduled (history only, never read by the code)
MarkJoined(bag) ==
    LET marked(t) == [t EXCEPT !.joined = TRUE]
        copies(t) == IF t \in DOMAIN bag THEN bag[t] ELSE 0
    IN  [t \in {marked(x) : x \in DOMAIN bag} |->
            copies(t) + copies([t EXCEPT !.joined = FALSE])]

memberJoin(m) ==
    /\ m \notin members
    /\ members' = members \cup {m}
    /\ timers' = IF m # ClientId THEN MarkJoined(timers) ELSE timers
    /\ last' = [op |-> "members", effects |-> <<>>]
    /\ UNCHANGED <<options, queues, sessions>>
    /\ UNCHANGED cacheVars

memberLeave(m) ==
    /\ m \in members
    /\ members' = members \ {m}
    /\ last' = [op |-> "members", effects |-> <<>>]
    /\ UNCHANGED <<options, queues, sessions, timers>>
    /\ UNCHANGED cacheVars

(* ------------------------ voice-state reconciler ----------------------- *)
\* variant: only `!queue` is tested
Ignored_connectionUnchecked(guildId) == queues[guildId] = None

\* !queue || !queue.connection
Ignored(guildId) ==
    \/ queues[guildId] = None
    \/ sessions[queues[guildId]].connection = NoChannel

\* !newState.channelId && this.client.user?.id === oldState.member?.id
IsSelfDisconnect(oldState, newState) ==
    newState.channelId = NoChannel /\ ClientId = oldState.member

\* deafenOnJoin && oldState.serverDeaf && !newState.serverDeaf
IsUndeafen(queue, oldState, newState) ==
    Flag(queue.options, "deafenOnJoin") /\ oldState.serverDeaf /\ ~newState.serverDeaf

\* variant: the `oldState.channelId === newState.channelId` return is missing
SchedulesRecheck_anyChannel(queue, oldState, newState) ==
    ~(~Flag(queue.options, "leaveOnEmpty") \/ Cardinality(members) > 1)

\* variant: leaveOnEmpty is not looked at
SchedulesRecheck_alwaysLeave(queue, oldState, newState) ==
    /\ ~(oldState.channelId = newState.channelId)
    /\ ~(Cardinality(members) > 1)

\* neither of the two early returns before setTimeout is taken
SchedulesRecheck(queue, oldState, newState) ==
    /\ ~(oldState.channelId = newState.channelId)
    /\ ~(~Flag(queue.options, "leaveOnEmpty") \/ Cardinality(members) > 1)

\* variant: the self-disconnect branch does not return
voiceUpdateEffects_fallThrough(q, oldState, newState) ==
    IF IsSelfDisconnect(oldState, newState)
    THEN <<Leave(q), Emit("clientDisconnect", q)>>
         \o (IF SchedulesRecheck(sessions[q], oldState, newState)
             THEN <<SetTimeout(q)>> ELSE <<>>)
    ELSE (IF IsUndeafen(sessions[q], oldState, newState)
          THEN <<Emit("clientUndeafen", q)>> ELSE <<>>)
         \o (IF SchedulesRecheck(sessions[q], oldState, newState)
             THEN <<SetTimeout(q)>> ELSE <<>>)

\* variant: the un-deafen branch returns after its emit
voiceUpdateEffects_undeafenReturns(q, oldState, newState) ==
    IF IsSelfDisconnect(oldState, newState)
    THEN <<Leave(q), Emit("clientDisconnect", q)>>
    ELSE IF IsUndeafen(sessions[q], oldState, newState)
    THEN <<Emit("clientUndeafen", q)>>
    ELSE IF SchedulesRecheck(sessions[q], oldState, newState)
    THEN <<SetTimeout(q)>>
    ELSE <<>>

\* what _voiceUpdate does to a governed session, in program order
voiceUpdateEffects(q, oldState, newState) ==
    IF IsSelfDisconnect(oldState, newState)
    THEN <<Leave(q), Emit("clientDisconnect", q)>>
    ELSE (IF IsUndeafen(sessions[q], oldState, newState)
          THEN <<Emit("clientUndeafen", q)>> ELSE <<>>)
         \o (IF SchedulesRecheck(sessions[q], oldState, newState)
             THEN <<SetTimeout(q)>> ELSE <<>>)

\* variant: channelEmpty is emitted before leave() is called
timerEffects_emitFirst(q) ==
    IF sessions[q].connection = NoChannel THEN <<Throw("TypeError")>>
    ELSE IF Cardinality(members) > 1 THEN <<>>
    ELSE IF ClientId \in members
         THEN <<Emit("channelEmpty", q), Leave(q)>>
         ELSE <<>>

\* variant: the membership size is not read again when the timer fires
timerEffects_noRecheck(q) ==
    IF sessions[q].connection = NoChannel THEN <<Throw("TypeError")>>
    ELSE IF ClientId \in members
         THEN <<Leave(q), Emit("channelEmpty", q)>>
         ELSE <<>>

\* the body of the setTimeout callback, run on the captured queue
timerEffects(q) ==
    IF sessions[q].connection = NoChannel THEN <<Throw("TypeError")>>
    ELSE IF Cardinality(members) > 1 THEN <<>>
    ELSE IF ClientId \in members
         THEN <<Leave(q), Emit("channelEmpty", q)>>
         ELSE <<>>

\* the queues after the effects: each leave() call takes one of its outcomes
After(q, effects) ==
    IF CountKind(effects, "leave") > 0
    THEN {[sessions EXCEPT ![q] = r] : r \in LeaveOutcomes(sessions[q])}
    ELSE {sessions}

\* variant: a pending timer of the session is reused instead of adding one
Scheduled_debounced(q, effects) ==
    IF /\ CountKind(effects, "setTimeout") > 0
       /\ \A t \in DOMAIN timers : t.q # q
    THEN timers (+) SetToBag({[q |-> q, joined |-> FALSE]})
    ELSE timers

\* the timers after the effects: each setTimeout adds a pending callback
Scheduled(q, effects) ==
    IF CountKind(effects, "setTimeout") > 0
    THEN timers (+) SetToBag({[q |-> q, joined |-> FALSE]})
    ELSE timers

\* _voiceUpdate(oldState, newState)
voiceUpdateOutcomes(oldState, newState) ==
    IF Ignored(oldState.guild)
    THEN {[queues |-> queues, sessions |-> sessions, timers |-> timers,
           effects |-> <<>>]}
    ELSE LET q == queues[oldState.guild]
             effects == voiceUpdateEffects(q, oldState, newState)
         IN  {[queues |-> queues, sessions |-> s, timers |-> Scheduled(q, effects),
               effects |-> effects] : s \in After(q, effects)}

voiceUpdate(oldState, newState) ==
    \E r \in voiceUpdateOutcomes(oldState, newState) :
        /\ BagCardinality(r.timers) <= MaxTimers
        /\ queues' = r.queues
        /\ sessions' = r.sessions
        /\ timers' = r.timers
        /\ last' = [op |-> "voiceUpdate", effects |-> r.effects]
        /\ UNCHANGED <<options, members>>
        /\ UNCHANGED cacheVars

\* variant: the callback looks the queue up in the registry when it fires
timerOutcomes_registryLookup(t) ==
    LET g == sessions[t.q].guild
        q == IF queues[g] # None THEN queues[g] ELSE t.q
        effects == timerEffects(q)
    IN  {[queues |-> queues, sessions |-> s, timers |-> timers (-) SetToBag({t}),
          effects |-> effects] : s \in After(q, effects)}

\* the setTimeout callback of a pending timer t
timerOutcomes(t) ==
    LET effects == timerEffects(t.q)
    IN  {[queues |-> queues, sessions |-> s, timers |-> timers (-) SetToBag({t}),
          effects |-> effects] : s \in After(t.q, effects)}

timerFire(t) ==
    \E r \in timerOutcomes(t) :
        /\ queues' = r.queues
        /\ sessions' = r.sessions
        /\ timers' = r.timers
        /\ last' = [op |-> "timerFire", effects |-> r.effects]
        /\ UNCHANGED <<options, members>>
        /\ UNCHANGED cacheVars

(* --------------------- utils/Cache.ts: the wrapper --------------------- *)
\* cacheInstance?.get(cacheKey)
cacheGet(cacheKey) ==
    IF cacheInstance = NoInstance THEN Undefined ELSE disk[cacheInstance][cacheKey]

\* cacheInstance?.set(cacheKey, result): the store afterwards
cacheSet(cacheKey, result) ==
    IF cacheInstance = NoInstance THEN disk
    ELSE [disk EXCEPT ![cacheInstance][cacheKey] = result]

initCache(namespace) ==
    /\ cacheInstance' = namespace
    /\ UNCHANGED <<disk, calls>>
    /\ UNCHANGED playerVars

\* the cache key of a call: the decorator's parameter `key` is not used
wrapperKey(op, args) == serializeArgs(args)

\* the wrapper up to its return: a rejection, a cache hit, or the wrapped
\* method invoked and its promise pending
callOutcome(op, args) ==
    IF ~Serializable(args)
    THEN [op |-> op, args |-> args, store |-> cacheInstance,
          status |-> "threw", value |-> "TypeError"]
    ELSE LET cachedResult == cacheGet(wrapperKey(op, args))
         IN  IF cachedResult # Undefined
             THEN [op |-> op, args |-> args, store |-> cacheInstance,
                   status |-> "hit", value |-> cachedResult]
             ELSE [op |-> op, args |-> args, store |-> cacheInstance,
                   status |-> "pending", value |-> Undefined]

call(op, args) ==
    /\ Len(calls) < MaxCalls
    /\ calls' = Append(calls, callOutcome(op, args))
    /\ UNCHANGED <<cacheInstance, disk>>
    /\ UNCHANGED playerVars

\* variant: the result is stored without looking at it
resolveOutcome_storeAlways(i, result) ==
    [disk |-> cacheSet(wrapperKey(calls[i].op, calls[i].args), result),
     calls |-> [calls EXCEPT ![i].status = "resolved", ![i].value = result]]

\* the continuation passed to then, when the wrapped method resolves
resolveOutcome(i, result) ==
    [disk |-> IF Truthy(result)
              THEN cacheSet(wrapperKey(calls[i].op, calls[i].args), result)
              ELSE disk,
     calls |-> [calls EXCEPT ![i].status = "resolved", ![i].value = result]]

resolve(i, result) ==
    /\ calls[i].status = "pending"
    /\ LET r == resolveOutcome(i, result)
       IN  /\ disk' = r.disk
           /\ calls' = r.calls
    /\ UNCHANGED cacheInstance
    /\ UNCHANGED playerVars

\* the wrapped method was invoked by call i
Invoked(c) == c.status \in {"pending", "resolved"}

Next ==
    \/ \E g \in GuildIds, o \in CallOptions : createQueue(g, o)
    \/ \E g \in GuildIds, q \in DOMAIN sessions : setQueue(g, q)
    \/ \E g \in GuildIds : deleteQueue(g)
    \/ \E q \in DOMAIN sessions : queueJoin(q)
    \/ \E q \in DOMAIN sessions : queueLeave(q)
    \/ \E m \in UserIds : memberJoin(m)
    \/ \E m \in UserIds : memberLeave(m)
    \/ \E oldState \in OldStates, newState \in NewStates : voiceUpdate(oldState, newState)
    \/ \E t \in DOMAIN timers : timerFire(t)

Spec == Init /\ [][Next]_vars

NextCache ==
    \/ \E namespace \in Namespaces : initCache(namespace)
    \/ \E op \in Ops, args \in ArgLists : call(op, args)
    \/ \E i \in DOMAIN calls, result \in Results : resolve(i, result)

SpecCache == Init /\ [][NextCache]_vars

(* ======================================================================= *)
(* Properties.  A handler's outcome operator is evaluated in every         *)
(* reachable state on every input, so `\A input : pre => post(outcome)`    *)
(* as an invariant says: whenever the handler runs from a reachable state  *)
(* on an input satisfying pre, what it returns, emits and leaves behind    *)
(* satisfies post.                                                         *)
(* ======================================================================= *)

\* C1 (as stated): for each guild id at most one session created for that
\* guild has destroyed = FALSE, counting sessions that were removed from or
\* overwritten in the registry without having been terminated.
C1_AtMostOneLiveSessionPerGuild ==
    \A g \in GuildIds :
        Cardinality({q \in DOMAIN sessions :
                        sessions[q].guild = g /\ ~sessions[q].destroyed}) <= 1

\* C1 (amended): createQueue constructs a session for a guild only when the
\* registry holds no non-destroyed session under that guild id, it constructs
\* exactly one, and registers it under that id; so the registry never holds
\* two sessions for one id and a live registered session is never replaced
\* by createQueue.
C1_NewSessionOnlyWithoutLiveEntry ==
    \A g \in GuildIds, o \in CallOptions :
        LET r == createQueueOutcome(g, o)
        IN  r.sessions # sessions =>
                /\ queues[g] = None \/ sessions[queues[g]].destroyed
                /\ Len(r.sessions) = Len(sessions) + 1
                /\ SubSeq(r.sessions, 1, Len(sessions)) = sessions
                /\ r.queues = [queues EXCEPT ![g] = Len(sessions) + 1]

\* two non-destroyed sessions of one guild exist, the second one just created
\* after the first one was taken out of the registry without being terminated
C1_Witness ==
    /\ last = [op |-> "createQueue", effects |-> <<Return(2)>>]
    /\ Len(sessions) = 2
    /\ sessions[1].guild = sessions[2].guild
    /\ ~sessions[1].destroyed /\ ~sessions[2].destroyed
    /\ queues[sessions[2].guild] = 2

\* C2: for every resolvable guild id g and every registry state, after
\* createQueue(g, o) returns, hasQueue(g) is true, getQueue(g) is the returned
\* session and it is not destroyed; a stored destroyed session is replaced by
\* a newly constructed one.
C2_CreateYieldsLiveRegisteredSession ==
    \A g \in ResolvableGuilds, o \in CallOptions :
        LET r == createQueueOutcome(g, o)
        IN  /\ r.queues[g] # None
            /\ r.effects = <<Return(r.queues[g])>>
            /\ ~r.sessions[r.queues[g]].destroyed
            /\ (queues[g] # None /\ sessions[queues[g]].destroyed) =>
                   /\ r.queues[g] = Len(sessions) + 1
                   /\ Len(r.sessions) = Len(sessions) + 1

\* createQueue returned session 2, registered in place of destroyed session 1
C2_Witness ==
    /\ last = [op |-> "createQueue", effects |-> <<Return(2)>>]
    /\ Len(sessions) = 2
    /\ sessions[1].destroyed /\ ~sessions[2].destroyed
    /\ queues["g1"] = 2

\* C3 (as stated): if the registry holds a non-destroyed session s for guild
\* g, createQueue(g, o2) returns s for every o2, constructs no session and
\* leaves the sessions and the registry unchanged.
C3_LiveEntryIsReturned ==
    \A g \in GuildIds, o \in CallOptions :
        (queues[g] # None /\ ~sessions[queues[g]].destroyed) =>
            LET r == createQueueOutcome(g, o)
            IN  /\ r.effects = <<Return(queues[g])>>
                /\ r.sessions = sessions
                /\ r.queues = queues

\* C3 (amended): the same for every guild id the client can resolve.
C3_LiveEntryOfResolvedGuildIsReturned ==
    \A g \in ResolvableGuilds, o \in CallOptions :
        (queues[g] # None /\ ~sessions[queues[g]].destroyed) =>
            LET r == createQueueOutcome(g, o)
            IN  /\ r.effects = <<Return(queues[g])>>
                /\ r.sessions = sessions
                /\ r.queues = queues

\* createQueue returned the registered live session; that session already has
\* a connection, which a session constructed by this call cannot have
C3_Witness ==
    /\ queues["g1"] # None
    /\ last = [op |-> "createQueue", effects |-> <<Return(queues["g1"])>>]
    /\ ~sessions[queues["g1"]].destroyed
    /\ sessions[queues["g1"]].connection # NoChannel

\* C4: createQueue(g, o) for a guild id the client cannot resolve throws the
\* invalid-guild error and leaves the registry, the sessions and the player
\* options unchanged, also when the registry holds a live session under g.
C4_UnresolvedGuildThrows ==
    \A g \in GuildIds \ ResolvableGuilds, o \in CallOptions :
        LET r == createQueueOutcome(g, o)
        IN  /\ r.effects = <<Throw("INVALID_GUILD")>>
            /\ r.queues = queues
            /\ r.sessions = sessions
            /\ r.options = options

\* createQueue threw while the registry holds a live session under the
\* unresolvable guild id
C4_Witness ==
    /\ last = [op |-> "createQueue", effects |-> <<Throw("INVALID_GUILD")>>]
    /\ queues["g2"] # None
    /\ ~sessions[queues["g2"]].destroyed

\* C5: after deleteQueue(g), hasQueue(g) is false and getQueue(g) is absent,
\* whether or not the stored session was destroyed; no session's destroyed
\* flag or connection changes, and the entries of the other guilds stay.
C5_DeleteRemovesOnlyTheEntry ==
    \A g \in GuildIds :
        LET r == deleteQueueOutcome(g)
        IN  /\ r.queues[g] = None
            /\ r.sessions = sessions
            /\ \A h \in GuildIds \ {g} : r.queues[h] = queues[h]

\* after a deleteQueue the only session, created under g1, is gone from g1,
\* still not destroyed and still connected, and the entry of g2 is in place
C5_Witness ==
    /\ last.op = "deleteQueue"
    /\ Len(sessions) = 1
    /\ queues["g1"] = None /\ queues["g2"] = 1
    /\ ~sessions[1].destroyed
    /\ sessions[1].connection # NoChannel

\* C6: a presence event whose old snapshot's member is the client and whose
\* new snapshot has no channel, for a guild whose session has a connection,
\* calls leave() once, then emits one clientDisconnect carrying the session,
\* emits no clientUndeafen and schedules no re-check, whatever the deafened
\* flags and the session's options are.
C6_SelfDisconnectIsTerminal ==
    \A oldState \in OldStates, newState \in NewStates :
        ( /\ oldState.member = ClientId
          /\ newState.channelId = NoChannel
          /\ queues[oldState.guild] # None
          /\ sessions[queues[oldState.guild]].connection # NoChannel ) =>
            \A r \in voiceUpdateOutcomes(oldState, newState) :
                LET q == queues[oldState.guild]
                IN  /\ r.effects = <<Leave(q), Emit("clientDisconnect", q)>>
                    /\ r.sessions[q].destroyed
                    /\ r.timers = timers
                    /\ r.queues = queues

\* a presence event ended in leave() and clientDisconnect for a session with
\* deafenOnJoin and leaveOnEmpty enabled while the channel held at most one
\* member, and no timer is pending
C6_Witness ==
    \E q \in DOMAIN sessions :
        /\ last = [op |-> "voiceUpdate",
                   effects |-> <<Leave(q), Emit("clientDisconnect", q)>>]
        /\ sessions[q].destroyed
        /\ sessions[q].options.deafenOnJoin
        /\ sessions[q].options.leaveOnEmpty
        /\ Cardinality(members) <= 1
        /\ timers = EmptyBag

\* C7 (as stated): for a guild with a connected session whose deafenOnJoin is
\* true, an event going from server-deafened to not server-deafened with the
\* same channel id in both snapshots emits exactly one clientUndeafen and
\* nothing else, terminates nothing and schedules nothing, for every member
\* identity and every value of the unchanged channel id (absent included).
C7_UndeafenOnSameChannel ==
    \A oldState \in OldStates, newState \in NewStates :
        ( /\ queues[oldState.guild] # None
          /\ sessions[queues[oldState.guild]].connection # NoChannel
          /\ sessions[queues[oldState.guild]].options.deafenOnJoin
          /\ oldState.serverDeaf /\ ~newState.serverDeaf
          /\ oldState.channelId = newState.channelId ) =>
            \A r \in voiceUpdateOutcomes(oldState, newState) :
                /\ r.effects = <<Emit("clientUndeafen", queues[oldState.guild])>>
                /\ r.sessions = sessions
                /\ r.timers = timers

\* C7 (amended): the same, except for an event whose member is the client
\* itself and whose (unchanged) channel id is absent: that event is a
\* self-disconnect.
C7_UndeafenUnlessSelfDisconnect ==
    \A oldState \in OldStates, newState \in NewStates :
        ( /\ queues[oldState.guild] # None
          /\ sessions[queues[oldState.guild]].connection # NoChannel
          /\ sessions[queues[oldState.guild]].options.deafenOnJoin
          /\ oldState.serverDeaf /\ ~newState.serverDeaf
          /\ oldState.channelId = newState.channelId
          /\ ~(oldState.member = ClientId /\ newState.channelId = NoChannel) ) =>
            \A r \in voiceUpdateOutcomes(oldState, newState) :
                /\ r.effects = <<Emit("clientUndeafen", queues[oldState.guild])>>
                /\ r.sessions = sessions
                /\ r.timers = timers

\* a presence event emitted clientUndeafen only, for a session that is not
\* destroyed, has leaveOnEmpty enabled and sits in a channel with at most one
\* member (a changed channel id would have scheduled a re-check)
C7_Witness ==
    \E q \in DOMAIN sessions :
        /\ last = [op |-> "voiceUpdate", effects |-> <<Emit("clientUndeafen", q)>>]
        /\ ~sessions[q].destroyed
        /\ sessions[q].options.leaveOnEmpty
        /\ Cardinality(members) <= 1
        /\ timers = EmptyBag

\* C8 (as stated): with leaveOnEmpty true, a presence event that changes the
\* channel id, processed while the connected channel has at most one member,
\* schedules a re-check; and a re-check that fires while the connected
\* channel contains only the client calls leave() and then emits one
\* channelEmpty carrying the session.
C8_EmptyChannelLeave ==
    /\ \A oldState \in OldStates, newState \in NewStates :
        ( /\ queues[oldState.guild] # None
          /\ sessions[queues[oldState.guild]].connection # NoChannel
          /\ sessions[queues[oldState.guild]].options.leaveOnEmpty
          /\ oldState.channelId # newState.channelId
          /\ Cardinality(members) <= 1 ) =>
            \A r \in voiceUpdateOutcomes(oldState, newState) :
                /\ CountKind(r.effects, "setTimeout") = 1
                /\ r.timers = timers (+)
                       SetToBag({[q |-> queues[oldState.guild], joined |-> FALSE]})
    /\ \A t \in DOMAIN timers :
        (sessions[t.q].connection # NoChannel /\ members = {ClientId}) =>
            \A r \in timerOutcomes(t) :
                /\ r.effects = <<Leave(t.q), Emit("channelEmpty", t.q)>>
                /\ r.sessions[t.q].destroyed

\* C8 (amended): the same for a channel-changing event that is not a
\* self-disconnect (member is the client and the new snapshot has no channel).
C8_EmptyChannelLeaveUnlessSelfDisconnect ==
    /\ \A oldState \in OldStates, newState \in NewStates :
        ( /\ queues[oldState.guild] # None
          /\ sessions[queues[oldState.guild]].connection # NoChannel
          /\ sessions[queues[oldState.guild]].options.leaveOnEmpty
          /\ oldState.channelId # newState.channelId
          /\ Cardinality(members) <= 1
          /\ ~(oldState.member = ClientId /\ newState.channelId = NoChannel) ) =>
            \A r \in voiceUpdateOutcomes(oldState, newState) :
                /\ CountKind(r.effects, "setTimeout") = 1
                /\ r.timers = timers (+)
                       SetToBag({[q |-> queues[oldState.guild], joined |-> FALSE]})
    /\ \A t \in DOMAIN timers :
        (sessions[t.q].connection # NoChannel /\ members = {ClientId}) =>
            \A r \in timerOutcomes(t) :
                /\ r.effects = <<Leave(t.q), Emit("channelEmpty", t.q)>>
                /\ r.sessions[t.q].destroyed

\* a re-check fired with only the client in the channel: leave(), then
\* channelEmpty
C8_Witness ==
    \E q \in DOMAIN sessions :
        /\ last = [op |-> "timerFire",
                   effects |-> <<Leave(q), Emit("channelEmpty", q)>>]
        /\ sessions[q].destroyed
        /\ sessions[q].options.leaveOnEmpty
        /\ members = {ClientId}

\* C9 (as stated): once another member has joined the connected channel after
\* a re-check was scheduled, that re-check terminates nothing and emits no
\* channelEmpty, whatever joins and leaves follow before it fires.
C9_JoinCancelsLeave ==
    \A t \in DOMAIN timers :
        t.joined =>
            \A r \in timerOutcomes(t) :
                /\ CountKind(r.effects, "leave") = 0
                /\ CountEmit(r.effects, "channelEmpty") = 0
                /\ r.sessions = sessions

\* C9 (amended): a re-check that fires while the connected channel has more
\* than one member does nothing; a member who joined after the scheduling
\* prevents the termination only if the channel still has more than one
\* member when the re-check fires.
C9_OccupiedChannelAtFireTime ==
    \A t \in DOMAIN timers :
        (sessions[t.q].connection # NoChannel /\ Cardinality(members) > 1) =>
            \A r \in timerOutcomes(t) :
                /\ r.effects = <<>>
                /\ r.sessions = sessions
                /\ r.queues = queues

\* a re-check fired while the channel held the client and another member, and
\* did nothing to its still live, connected session
C9_Witness ==
    /\ last = [op |-> "timerFire", effects |-> <<>>]
    /\ Cardinality(members) > 1
    /\ \E q \in DOMAIN sessions :
           /\ ~sessions[q].destroyed
           /\ sessions[q].connection # NoChannel
           /\ sessions[q].options.leaveOnEmpty

\* C10: a presence event for a guild with no session in the registry, or with
\* a session that has no connection, does nothing: no effect (leave, emit,
\* timer, error) and registry, sessions and timers unchanged, for every
\* content of the two snapshots.
C10_IgnoredEventIsNoOp ==
    \A oldState \in OldStates, newState \in NewStates :
        ( \/ queues[oldState.guild] = None
          \/ sessions[queues[oldState.guild]].connection = NoChannel ) =>
            \A r \in voiceUpdateOutcomes(oldState, newState) :
                /\ r.effects = <<>>
                /\ r.queues = queues
                /\ r.sessions = sessions
                /\ r.timers = timers

\* a presence event was processed while one guild has no session and the
\* other has a live session without connection
C10_Witness ==
    /\ last = [op |-> "voiceUpdate", effects |-> <<>>]
    /\ queues["g2"] = None
    /\ queues["g1"] # None
    /\ ~sessions[queues["g1"]].destroyed
    /\ sessions[queues["g1"]].connection = NoChannel
    /\ sessions[queues["g1"]].options.leaveOnEmpty
    /\ Cardinality(members) <= 1

\* C11: a re-check tolerates stale state: if the session was terminated or
\* its connection became absent between scheduling and firing, the timer
\* callback raises no error (an absent connection is a no-op).
C11_TimerNeverThrows ==
    last.op = "timerFire" => CountKind(last.effects, "throw") = 0

\* C15: a presence event schedules a re-check if and only if the guild's
\* session exists with a connection, the event is not a self-disconnect, the
\* channel id differs between the snapshots, leaveOnEmpty is enabled and the
\* connected channel has at most one member; so every pending re-check and
\* every channelEmpty belongs to a session with leaveOnEmpty enabled.
C15_ScheduledIffQualifying ==
    /\ \A oldState \in OldStates, newState \in NewStates :
        LET g == oldState.guild
            qualifies ==
                /\ queues[g] # None
                /\ sessions[queues[g]].connection # NoChannel
                /\ ~(oldState.member = ClientId /\ newState.channelId = NoChannel)
                /\ oldState.channelId # newState.channelId
                /\ sessions[queues[g]].options.leaveOnEmpty
                /\ Cardinality(members) <= 1
        IN  \A r \in voiceUpdateOutcomes(oldState, newState) :
                IF qualifies
                THEN /\ CountKind(r.effects, "setTimeout") = 1
                     /\ r.timers = timers (+)
                            SetToBag({[q |-> queues[g], joined |-> FALSE]})
                ELSE /\ CountKind(r.effects, "setTimeout") = 0
                     /\ r.timers = timers
    /\ \A t \in DOMAIN timers : sessions[t.q].options.leaveOnEmpty
    /\ \A i \in DOMAIN last.effects :
           last.effects[i].ev = "channelEmpty" =>
               sessions[last.effects[i].q].options.leaveOnEmpty

\* a presence event was processed for a connected session with leaveOnEmpty
\* disabled (it is registered under both guild ids) while the channel held at
\* most one member, and nothing was scheduled
C15_Witness ==
    \E q \in DOMAIN sessions :
        /\ queues["g1"] = q /\ queues["g2"] = q
        /\ sessions[q].connection # NoChannel
        /\ ~sessions[q].options.leaveOnEmpty
        /\ Cardinality(members) <= 1
        /\ last = [op |-> "voiceUpdate", effects |-> <<>>]
        /\ timers = EmptyBag

\* C16: no cancellation and no retry: a qualifying presence event adds its own
\* pending timer also when timers are pending, no presence event removes a
\* pending timer, a firing timer removes itself and nothing else, and the
\* callback schedules no timer.
C16_NoCancellationNoRetry ==
    /\ \A oldState \in OldStates, newState \in NewStates :
        \A r \in voiceUpdateOutcomes(oldState, newState) :
            /\ timers \sqsubseteq r.timers
            /\ BagCardinality(r.timers) =
                   BagCardinality(timers) + CountKind(r.effects, "setTimeout")
            /\ CountKind(r.effects, "setTimeout") <= 1
    /\ \A t \in DOMAIN timers :
        \A r \in timerOutcomes(t) :
            /\ r.timers (+) SetToBag({t}) = timers
            /\ CountKind(r.effects, "setTimeout") = 0

\* a presence event scheduled a second re-check for a session that already
\* had one pending
C16_Witness ==
    \E q \in DOMAIN sessions :
        /\ last = [op |-> "voiceUpdate", effects |-> <<SetTimeout(q)>>]
        /\ BagCardinality(timers) = 2
        /\ \A t \in DOMAIN timers : t.q = q

\* C17: an event that is not a self-disconnect, with deafenOnJoin and
\* leaveOnEmpty enabled, going from server-deafened to not server-deafened
\* and changing the channel id while the connected channel has at most one
\* member, emits exactly one clientUndeafen and then schedules a re-check.
C17_UndeafenFallsThrough ==
    \A oldState \in OldStates, newState \in NewStates :
        ( /\ queues[oldState.guild] # None
          /\ sessions[queues[oldState.guild]].connection # NoChannel
          /\ ~(oldState.member = ClientId /\ newState.channelId = NoChannel)
          /\ sessions[queues[oldState.guild]].options.deafenOnJoin
          /\ sessions[queues[oldState.guild]].options.leaveOnEmpty
          /\ oldState.serverDeaf /\ ~newState.serverDeaf
          /\ oldState.channelId # newState.channelId
          /\ Cardinality(members) <= 1 ) =>
            \A r \in voiceUpdateOutcomes(oldState, newState) :
                LET q == queues[oldState.guild]
                IN  /\ r.effects = <<Emit("clientUndeafen", q), SetTimeout(q)>>
                    /\ r.timers = timers (+) SetToBag({[q |-> q, joined |-> FALSE]})
                    /\ r.sessions = sessions

\* one presence event emitted clientUndeafen and scheduled a re-check
C17_Witness ==
    \E q \in DOMAIN sessions :
        /\ last = [op |-> "voiceUpdate",
                   effects |-> <<Emit("clientUndeafen", q), SetTimeout(q)>>]
        /\ [q |-> q, joined |-> FALSE] \in DOMAIN timers
        /\ ~sessions[q].destroyed

\* C18: the reconciler never acts on a session that is already destroyed when
\* the step begins: no presence event and no re-check calls leave() on it or
\* emits clientDisconnect or channelEmpty for it.  (leave() sets destroyed, so
\* this is what "terminated at most once and at most one channelEmpty per
\* session" comes to.)
C18_NoActionOnDestroyedSession ==
    /\ \A oldState \in OldStates, newState \in NewStates :
        (queues[oldState.guild] # None /\ sessions[queues[oldState.guild]].destroyed) =>
            \A r \in voiceUpdateOutcomes(oldState, newState) :
                /\ CountKind(r.effects, "leave") = 0
                /\ CountEmit(r.effects, "clientDisconnect") = 0
    /\ \A t \in DOMAIN timers :
        sessions[t.q].destroyed =>
            \A r \in timerOutcomes(t) :
                /\ CountKind(r.effects, "leave") = 0
                /\ CountEmit(r.effects, "channelEmpty") = 0

\* C20: a re-check reads and terminates only the session captured when it was
\* scheduled: every other session, the registry entry included, is left as it
\* is, and every leave() and emit of the callback carries the captured one.
C20_TimerActsOnCapturedSession ==
    \A t \in DOMAIN timers :
        \A r \in timerOutcomes(t) :
            /\ \A q \in DOMAIN sessions \ {t.q} : r.sessions[q] = sessions[q]
            /\ \A i \in DOMAIN r.effects :
                   r.effects[i].kind \in {"leave", "emit"} => r.effects[i].q = t.q
            /\ r.queues = queues

\* a re-check terminated session 1 while the registry holds session 2 for the
\* guild, connected to the same channel and still live
C20_Witness ==
    /\ last = [op |-> "timerFire",
               effects |-> <<Leave(1), Emit("channelEmpty", 1)>>]
    /\ Len(sessions) = 2
    /\ queues[sessions[1].guild] = 2
    /\ sessions[1].destroyed
    /\ ~sessions[2].destroyed
    /\ sessions[2].connection # NoChannel

(* ---------------- properties of the cache decorator -------------------- *)

\* C12: cache idempotence under every interleaving: of two calls of one
\* decorated method with identical serialized arguments, both made with the
\* same store bound and both with a truthy result, at most one invoked the
\* wrapped method.
C12_AtMostOneInvocation ==
    \A i \in DOMAIN calls, j \in DOMAIN calls :
        ( /\ i < j
          /\ calls[i].op = calls[j].op
          /\ Serializable(calls[i].args) /\ Serializable(calls[j].args)
          /\ serializeArgs(calls[i].args) = serializeArgs(calls[j].args)
          /\ calls[i].store # NoInstance
          /\ calls[i].store = calls[j].store
          /\ calls[i].status \in {"hit", "resolved"} /\ Truthy(calls[i].value)
          /\ calls[j].status \in {"hit", "resolved"} /\ Truthy(calls[j].value) ) =>
            ~(Invoked(calls[i]) /\ Invoked(calls[j]))

\* C13: a falsy result is never written to the store, a call that finds no
\* stored value for its key invokes the wrapped method (so the call after a
\* falsy result invokes it again), and every stored value is truthy and is
\* the result some invoked call with that key resolved to.
C13_FalsyNeverCached ==
    /\ \A i \in DOMAIN calls :
        calls[i].status = "pending" =>
            \A result \in Results :
                ~Truthy(result) => resolveOutcome(i, result).disk = disk
    /\ \A op \in Ops, args \in ArgLists :
        (Serializable(args) /\ cacheGet(serializeArgs(args)) = Undefined) =>
            Invoked(callOutcome(op, args))
    /\ \A ns \in Namespaces, k \in Keys :
        disk[ns][k] # Undefined =>
            /\ Truthy(disk[ns][k])
            /\ \E i \in DOMAIN calls :
                /\ calls[i].status = "resolved"
                /\ serializeArgs(calls[i].args) = k
                /\ calls[i].value = disk[ns][k]

\* with the store bound, a call resolved to the empty string, nothing was
\* stored, and the identical call made afterwards invoked the method again
C13_Witness ==
    /\ Len(calls) = 2
    /\ calls[1].status = "resolved" /\ calls[1].value = ""
    /\ calls[1].store # NoInstance
    /\ calls[2].op = calls[1].op /\ calls[2].args = calls[1].args
    /\ calls[2].store = calls[1].store
    /\ Invoked(calls[2])
    /\ \A ns \in Namespaces, k \in Keys : disk[ns][k] = Undefined

\* C14: the cache layer never raises: no call of a decorated method ends in
\* an error of the wrapper, whether the store is uninitialized or an
\* argument cannot be serialized.
C14_CacheLayerNeverRaises ==
    \A i \in DOMAIN calls : calls[i].status # "threw"

\* C19: a cache hit returns only a value that the same decorated method
\* produced earlier for the same argument list.
C19_HitReturnsOwnValue ==
    \A j \in DOMAIN calls :
        calls[j].status = "hit" =>
            \E i \in DOMAIN calls :
                /\ i < j
                /\ calls[i].status = "resolved"
                /\ calls[i].op = calls[j].op
                /\ calls[i].args = calls[j].args
                /\ calls[i].value = calls[j].value

====
